---------------------------- MODULE Spec2Model ----------------------------
(***************************************************************************)
(* Workflow events of orangecanvas.scheme.events.                          *)
(*                                                                         *)
(* The module's state is the namespace of class WorkflowEvent (built when  *)
(* the class body runs at import), the event types handed out by           *)
(* QEvent.registerEventType, and the event objects alive on the heap.      *)
(* Objects are functions from attribute names to values; private           *)
(* attributes carry Python's name mangling (self.__pos inside NodeEvent is *)
(* "_NodeEvent__pos").                                                     *)
(***************************************************************************)
EXTENDS Integers, Sequences, FiniteSets, TLC

(* ------------------------------ bounds --------------------------------- *)

\* Event types registered by code other than the WorkflowEvent class body.
MaxOtherTypes == 1

\* Nodes, links and annotations of the workflow that an event may refer to.
NumEntities == 2

\* Event objects alive at the same time (SpecHeap).
MaxEvents == 2

(* ------------------------------ inputs --------------------------------- *)

\* References to workflow entities (SchemeNode, SchemeLink, annotation).
Entities == 1..NumEntities

\* pos arguments: -1, the valid indexes of a collection of NumEntities
\* entities, and integers that are neither (-2, one past the end).
PosInputs == (-2)..NumEntities

\* Environment property names and opaque old/new values of mixed types.
EnvNames == {"workdir", "basedir"}

EnvValues ==
  { [type |-> "str", repr |-> "/tmp/a"],
    [type |-> "str", repr |-> "/tmp/b"],
    [type |-> "int", repr |-> "1"] }

\* The classes with a (etype, entity, pos=-1) constructor.
CarrierClasses == {"NodeEvent", "LinkEvent", "AnnotationEvent"}

(* --------------------------- class WorkflowEvent ----------------------- *)

\* The assignments of the class body, in source order.  from = "" is
\* `name = QEvent.registerEventType()`; otherwise `name = from`.
ClassBody ==
  << [name |-> "NodeAdded",                 from |-> ""],
     [name |-> "NodeRemoved",               from |-> ""],
     [name |-> "LinkAdded",                 from |-> ""],
     [name |-> "LinkRemoved",               from |-> ""],
     [name |-> "InputLinkAdded",            from |-> ""],
     [name |-> "OutputLinkAdded",           from |-> ""],
     [name |-> "InputLinkRemoved",          from |-> ""],
     [name |-> "OutputLinkRemoved",         from |-> ""],
     [name |-> "NodeStateChange",           from |-> ""],
     [name |-> "LinkStateChange",           from |-> ""],
     [name |-> "InputLinkStateChange",      from |-> ""],
     [name |-> "OutputLinkStateChange",     from |-> ""],
     [name |-> "NodeInitialize",            from |-> ""],
     [name |-> "NodeRestore",               from |-> ""],
     [name |-> "NodeSaveStateRequest",      from |-> ""],
     [name |-> "NodeActivateRequest",       from |-> ""],
     [name |-> "RuntimeStateChange",        from |-> ""],
     [name |-> "WorkflowEnvironmentChange", from |-> ""],
     [name |-> "WorkflowResourceChange",    from |-> "WorkflowEnvironmentChange"],
     [name |-> "WorkflowAboutToClose",      from |-> ""],
     [name |-> "WorkflowClose",             from |-> ""],
     [name |-> "AnnotationAdded",           from |-> ""],
     [name |-> "AnnotationRemoved",         from |-> ""],
     [name |-> "AnnotationChange",          from |-> ""],
     [name |-> "ActivateParentRequest",     from |-> ""] >>

\* pc value once the class body has run (the module is imported).
Loaded == Len(ClassBody) + 1

KindNames == { ClassBody[i].name : i \in 1..Len(ClassBody) }

VARIABLES
  pc,          \* next statement of the WorkflowEvent class body; Loaded after it
  registered,  \* event types QEvent.registerEventType has handed out
  kinds,       \* namespace of class WorkflowEvent: kind name -> event type
  heap,        \* live event objects, by address
  ctor,        \* per live object: the class and arguments it was constructed with
  ret          \* the last call and what it returned

vars == <<pc, registered, kinds, heap, ctor, ret>>

NoCall == [op |-> "none", self |-> 0, err |-> "ok", val |-> 0]

Range(f) == { f[x] : x \in DOMAIN f }

\* QEvent.registerEventType(): an event type that has not been registered
\* yet.  Which one is not observable from events.py; the model takes the
\* smallest unused id.
RegisterEventType(reg) ==
  CHOOSE i \in 1..(Cardinality(reg) + 1) :
     /\ i \notin reg
     /\ \A j \in 1..(i - 1) : j \in reg

\* Binding a name in a namespace / setting an attribute of an object.
SetAttr(obj, f, v) == [k \in DOMAIN obj \cup {f} |-> IF k = f THEN v ELSE obj[k]]

\* Exec with the alias written as a chained assignment of a fresh type,
\* `name = from = QEvent.registerEventType()`, which rebinds `from`.
Exec_AliasRebindsSource(stmt, ns, reg) ==
  LET id == RegisterEventType(reg)
      r  == [op |-> "registerEventType", self |-> 0, err |-> "ok", val |-> id]
  IN  IF stmt.from = ""
        THEN [kinds |-> SetAttr(ns, stmt.name, id), registered |-> reg \cup {id}, ret |-> r]
        ELSE [kinds |-> SetAttr(SetAttr(ns, stmt.from, id), stmt.name, id),
              registered |-> reg \cup {id}, ret |-> r]

\* Exec with the alias given an event type of its own,
\* `name = QEvent.registerEventType()`.
Exec_AliasRegisters(stmt, ns, reg) ==
  LET id == RegisterEventType(reg)
  IN  [kinds |-> SetAttr(ns, stmt.name, id),
       registered |-> reg \cup {id},
       ret |-> [op |-> "registerEventType", self |-> 0, err |-> "ok", val |-> id]]

\* One statement of the class body, run on namespace ns and registry reg.
Exec(stmt, ns, reg) ==
  IF stmt.from = ""
    THEN LET id == RegisterEventType(reg)
         IN  [kinds |-> SetAttr(ns, stmt.name, id),
              registered |-> reg \cup {id},
              ret |-> [op |-> "registerEventType", self |-> 0, err |-> "ok", val |-> id]]
    ELSE [kinds |-> SetAttr(ns, stmt.name, ns[stmt.from]),
          registered |-> reg,
          ret |-> NoCall]

\* The class body run from statement i to its end.
RECURSIVE RunClassBody(_, _, _)
RunClassBody(i, ns, reg) ==
  IF i > Len(ClassBody)
    THEN [kinds |-> ns, registered |-> reg]
    ELSE LET r == Exec(ClassBody[i], ns, reg)
         IN  RunClassBody(i + 1, r.kinds, r.registered)

(* ------------------------------ the classes ---------------------------- *)

NewObject(cls) == [k \in {"__class__"} |-> cls]

\* An __init__ that raises leaves no object behind, only the exception.
Raised(obj) == "__raise__" \in DOMAIN obj

\* self.f = v, reached only if no earlier statement of __init__ raised.
StoreAttr(self, f, v) == IF Raised(self) THEN self ELSE SetAttr(self, f, v)

\* WorkflowEvent.__init__ that does not forward etype (the type stays 0,
\* QEvent.None).
WorkflowEvent_init_IgnoresEtype(self, etype) == StoreAttr(self, "t", 0)

\* WorkflowEvent.__init__(self, etype): QEvent.__init__ stores the type.
WorkflowEvent_init(self, etype) == StoreAttr(self, "t", etype)

\* The pos parameter with a default of 0.
PosArg_DefaultZero(args) == IF "pos" \in DOMAIN args THEN args.pos ELSE 0

\* The pos parameter: its default is -1.
PosArg(args) == IF "pos" \in DOMAIN args THEN args.pos ELSE -1

\* NodeEvent.__init__ that stores another entity than the one passed.
NodeEvent_init_OtherNode(self, etype, node, pos) ==
  LET s0 == WorkflowEvent_init(self, etype)
      s1 == StoreAttr(s0, "_NodeEvent__node", (node % NumEntities) + 1)
  IN  StoreAttr(s1, "_NodeEvent__pos", pos)

NodeEvent_init(self, etype, node, pos) ==
  LET s0 == WorkflowEvent_init(self, etype)
      s1 == StoreAttr(s0, "_NodeEvent__node", node)
  IN  StoreAttr(s1, "_NodeEvent__pos", pos)

\* LinkEvent.__init__ that rejects a pos below -1.
LinkEvent_init_Validates(self, etype, link, pos) ==
  LET s0 == IF pos < -1
              THEN [k \in {"__raise__"} |-> "ValueError"]
              ELSE WorkflowEvent_init(self, etype)
      s1 == StoreAttr(s0, "_LinkEvent__link", link)
  IN  StoreAttr(s1, "_LinkEvent__pos", pos)

LinkEvent_init(self, etype, link, pos) ==
  LET s0 == WorkflowEvent_init(self, etype)
      s1 == StoreAttr(s0, "_LinkEvent__link", link)
  IN  StoreAttr(s1, "_LinkEvent__pos", pos)

\* AnnotationEvent.__init__ that turns every negative pos into -1.
AnnotationEvent_init_ClampsPos(self, etype, annotation, pos) ==
  LET s0 == WorkflowEvent_init(self, etype)
      s1 == StoreAttr(s0, "_AnnotationEvent__annotation", annotation)
  IN  StoreAttr(s1, "_AnnotationEvent__pos", IF pos < 0 THEN -1 ELSE pos)

AnnotationEvent_init(self, etype, annotation, pos) ==
  LET s0 == WorkflowEvent_init(self, etype)
      s1 == StoreAttr(s0, "_AnnotationEvent__annotation", annotation)
  IN  StoreAttr(s1, "_AnnotationEvent__pos", pos)

\* WorkflowEnvChanged.__init__ with the two values stored the other way round.
WorkflowEnvChanged_init_Swapped(self, name, newValue, oldValue) ==
  LET s0 == WorkflowEvent_init(self, kinds["WorkflowEnvironmentChange"])
      s1 == StoreAttr(s0, "_WorkflowEnvChanged__name", name)
      s2 == StoreAttr(s1, "_WorkflowEnvChanged__oldValue", newValue)
  IN  StoreAttr(s2, "_WorkflowEnvChanged__newValue", oldValue)

\* WorkflowEnvChanged.__init__ that passes another kind to the base class.
WorkflowEnvChanged_init_WrongKind(self, name, newValue, oldValue) ==
  LET s0 == WorkflowEvent_init(self, kinds["RuntimeStateChange"])
      s1 == StoreAttr(s0, "_WorkflowEnvChanged__name", name)
      s2 == StoreAttr(s1, "_WorkflowEnvChanged__oldValue", oldValue)
  IN  StoreAttr(s2, "_WorkflowEnvChanged__newValue", newValue)

WorkflowEnvChanged_init(self, name, newValue, oldValue) ==
  LET s0 == WorkflowEvent_init(self, kinds["WorkflowEnvironmentChange"])
      s1 == StoreAttr(s0, "_WorkflowEnvChanged__name", name)
      s2 == StoreAttr(s1, "_WorkflowEnvChanged__oldValue", oldValue)
  IN  StoreAttr(s2, "_WorkflowEnvChanged__newValue", newValue)

\* cls(*args): a new object initialised by the class's __init__.
New(cls, args) ==
  CASE cls = "WorkflowEvent" ->
         WorkflowEvent_init(NewObject(cls), args.etype)
    [] cls = "NodeEvent" ->
         NodeEvent_init(NewObject(cls), args.etype, args.entity, PosArg(args))
    [] cls = "LinkEvent" ->
         LinkEvent_init(NewObject(cls), args.etype, args.entity, PosArg(args))
    [] cls = "AnnotationEvent" ->
         AnnotationEvent_init(NewObject(cls), args.etype, args.entity, PosArg(args))
    [] cls = "WorkflowEnvChanged" ->
         WorkflowEnvChanged_init(NewObject(cls), args.name, args.newValue, args.oldValue)

\* The attribute an accessor method of a class returns; type() is QEvent's.
AccessorField(cls, m) ==
  IF m = "type" THEN "t"
  ELSE CASE cls = "NodeEvent" /\ m = "node" -> "_NodeEvent__node"
         [] cls = "NodeEvent" /\ m = "pos" -> "_NodeEvent__pos"
         [] cls = "LinkEvent" /\ m = "link" -> "_LinkEvent__link"
         [] cls = "LinkEvent" /\ m = "pos" -> "_LinkEvent__pos"
         [] cls = "AnnotationEvent" /\ m = "annotation" -> "_AnnotationEvent__annotation"
         [] cls = "AnnotationEvent" /\ m = "pos" -> "_AnnotationEvent__pos"
         [] cls = "WorkflowEnvChanged" /\ m = "name" -> "_WorkflowEnvChanged__name"
         [] cls = "WorkflowEnvChanged" /\ m = "oldValue" -> "_WorkflowEnvChanged__oldValue"
         [] cls = "WorkflowEnvChanged" /\ m = "newValue" -> "_WorkflowEnvChanged__newValue"

\* The accessor methods each class has.
Methods(cls) ==
  CASE cls = "WorkflowEvent" -> {"type"}
    [] cls = "NodeEvent" -> {"type", "node", "pos"}
    [] cls = "LinkEvent" -> {"type", "link", "pos"}
    [] cls = "AnnotationEvent" -> {"type", "annotation", "pos"}
    [] cls = "WorkflowEnvChanged" -> {"type", "name", "oldValue", "newValue"}

\* An accessor that hands the attribute out and clears it on the object.
Invoke_ClearsAttribute(self, m) ==
  LET f == AccessorField(self["__class__"], m)
  IN  IF f \in DOMAIN self
        THEN [err |-> "ok", val |-> self[f], self |-> SetAttr(self, f, 0)]
        ELSE [err |-> "AttributeError", val |-> 0, self |-> self]

\* `return self.<attribute>`: the value, or AttributeError when the object
\* has no such attribute.  The object itself is left as it is.
Invoke(self, m) ==
  LET f == AccessorField(self["__class__"], m)
  IN  IF f \in DOMAIN self
        THEN [err |-> "ok", val |-> self[f], self |-> self]
        ELSE [err |-> "AttributeError", val |-> 0, self |-> self]

(* ------------------------------- actions ------------------------------- *)

Addresses == 1..MaxEvents

Init ==
  /\ pc = 1
  /\ registered = {}
  /\ kinds = << >>
  /\ heap = << >>
  /\ ctor = << >>
  /\ ret = NoCall

\* Importing the module runs the next statement of the class body.
ImportStep ==
  /\ pc <= Len(ClassBody)
  /\ LET r == Exec(ClassBody[pc], kinds, registered)
     IN  /\ kinds' = r.kinds
         /\ registered' = r.registered
         /\ ret' = r.ret
  /\ pc' = pc + 1
  /\ UNCHANGED <<heap, ctor>>

OtherTypes == registered \ Range(kinds)

\* Other code of the process calls QEvent.registerEventType().
RegisterOther ==
  /\ Cardinality(OtherTypes) < MaxOtherTypes
  /\ LET id == RegisterEventType(registered)
     IN  /\ registered' = registered \cup {id}
         /\ ret' = [op |-> "registerEventType", self |-> 0, err |-> "ok", val |-> id]
  /\ UNCHANGED <<pc, kinds, heap, ctor>>

\* obj = cls(*args): the new object is stored at the free address a, unless
\* __init__ raised.
Construct(a, cls, args) ==
  /\ pc = Loaded
  /\ a \notin DOMAIN heap
  /\ LET obj == New(cls, args)
     IN  IF Raised(obj)
           THEN /\ ret' = [op |-> cls, self |-> 0, err |-> obj["__raise__"], val |-> 0]
                /\ UNCHANGED <<heap, ctor>>
           ELSE /\ heap' = SetAttr(heap, a, obj)
                /\ ctor' = SetAttr(ctor, a, [cls |-> cls, args |-> args])
                /\ ret' = [op |-> cls, self |-> a, err |-> "ok", val |-> a]
  /\ UNCHANGED <<pc, registered, kinds>>

\* heap[a].m()
Call(a, m) ==
  /\ a \in DOMAIN heap
  /\ m \in Methods(heap[a]["__class__"])
  /\ LET r == Invoke(heap[a], m)
     IN  /\ ret' = [op |-> m, self |-> a, err |-> r.err, val |-> r.val]
         /\ heap' = [heap EXCEPT ![a] = r.self]
  /\ UNCHANGED <<pc, registered, kinds, ctor>>

\* The last reference to the event at a goes away.
Discard(a) ==
  /\ a \in DOMAIN heap
  /\ heap' = [b \in DOMAIN heap \ {a} |-> heap[b]]
  /\ ctor' = [b \in DOMAIN ctor \ {a} |-> ctor[b]]
  /\ ret' = NoCall
  /\ UNCHANGED <<pc, registered, kinds>>

\* Constructor arguments.
CarrierArgs(etypes, entities, poss) ==
  [etype : etypes, entity : entities] \cup [etype : etypes, entity : entities, pos : poss]

EnvArgs(names, values) == [name : names, newValue : values, oldValue : values]

(* --------------------------- specifications ---------------------------- *)

\* Import of the module, while other code registers event types of its own.
NextImport == ImportStep \/ RegisterOther

SpecImport == Init /\ [][NextImport]_vars

\* The module has been imported, after other code registered n event types.
LoadedAfter(n) ==
  LET r == RunClassBody(1, << >>, 1..n)
  IN  /\ pc = Loaded
      /\ registered = r.registered
      /\ kinds = r.kinds
      /\ heap = << >>
      /\ ctor = << >>
      /\ ret = NoCall

InitLoaded == \E n \in 0..MaxOtherTypes : LoadedAfter(n)

ConstructBase(etypes) ==
  \E a \in Addresses, args \in [etype : etypes] :
     Construct(a, "WorkflowEvent", args)

ConstructCarrier(etypes, entities, poss) ==
  \E a \in Addresses, cls \in CarrierClasses, args \in CarrierArgs(etypes, entities, poss) :
     Construct(a, cls, args)

ConstructEnv(names, values) ==
  \E a \in Addresses, args \in EnvArgs(names, values) :
     Construct(a, "WorkflowEnvChanged", args)

CallAccessor == \E a \in DOMAIN heap : \E m \in Methods(heap[a]["__class__"]) : Call(a, m)

DiscardEvent == \E a \in DOMAIN heap : Discard(a)

\* One event at a time (constructed, delivered, discarded), built from every
\* kind of the registry and every input.
Next ==
  \/ heap = << >> /\ ConstructBase(Range(kinds))
  \/ heap = << >> /\ ConstructCarrier(Range(kinds), Entities, PosInputs)
  \/ heap = << >> /\ ConstructEnv(EnvNames, EnvValues)
  \/ CallAccessor
  \/ DiscardEvent

Spec == InitLoaded /\ [][Next]_vars

\* Several events alive at once (posted, not yet delivered), built from a
\* sample of the inputs; the carrier events refer to the same entity.
KindSample == { kinds["NodeAdded"], kinds["LinkRemoved"] }

EntitySample == {1}

PosSample == {3}

InitHeap == LoadedAfter(0)

NextHeap ==
  \/ ConstructBase(KindSample)
  \/ ConstructCarrier(KindSample, EntitySample, PosSample)
  \/ ConstructEnv({"workdir"}, { v \in EnvValues : v.type = "str" })
  \/ CallAccessor
  \/ DiscardEvent

SpecHeap == InitHeap /\ [][NextHeap]_vars

(* ------------------------------ properties ----------------------------- *)

Live == DOMAIN heap

Carriers == { a \in Live : ctor[a].cls \in CarrierClasses }

EnvEvents == { a \in Live : ctor[a].cls = "WorkflowEnvChanged" }

\* The accessor of the entity a carrier class wraps.
EntityMethod(cls) ==
  CASE cls = "NodeEvent" -> "node"
    [] cls = "LinkEvent" -> "link"
    [] cls = "AnnotationEvent" -> "annotation"

\* What the caller passed as pos, -1 standing for an omitted argument.
PassedPos(a) == IF "pos" \in DOMAIN ctor[a].args THEN ctor[a].args.pos ELSE -1

\* Indexes into a collection (nodes, links, annotations) of the workflow: a
\* collection of distinct entities has at most NumEntities elements.
ValidIndexes == 0..(NumEntities - 1)

\* C1: pos() of a NodeEvent, LinkEvent or AnnotationEvent returns the pos
\* argument of its construction, and -1 when the argument was omitted,
\* whatever the kind and the entity.
C1_PosReturnsArgument ==
  /\ \A a \in Carriers :
        LET r == Invoke(heap[a], "pos")
        IN  r.err = "ok" /\ r.val = PassedPos(a)
  /\ ret.op = "pos" => ret.err = "ok" /\ ret.val = PassedPos(ret.self)

\* LinkEvent(LinkRemoved, someLink).pos() has returned -1.
C1_Witness ==
  /\ ret.op = "pos"
  /\ ret.val = -1
  /\ ctor[ret.self].cls = "LinkEvent"
  /\ ctor[ret.self].args.etype = kinds["LinkRemoved"]
  /\ "pos" \notin DOMAIN ctor[ret.self].args

\* C2: node(), link() and annotation() return the very entity reference
\* passed to the constructor, whatever the kind and pos arguments.
C2_EntityIdentity ==
  /\ \A a \in Carriers :
        LET r == Invoke(heap[a], EntityMethod(ctor[a].cls))
        IN  r.err = "ok" /\ r.val = ctor[a].args.entity
  /\ ret.op \in {"node", "link", "annotation"} =>
        ret.err = "ok" /\ ret.val = ctor[ret.self].args.entity

\* NodeEvent(NodeAdded, entity 2, 0).node() has returned entity 2.
C2_Witness ==
  /\ ret.op = "node"
  /\ ret.val = 2
  /\ ctor[ret.self].args = [etype |-> kinds["NodeAdded"], entity |-> 2, pos |-> 0]

\* C3: for WorkflowEnvChanged(name, newValue, oldValue), name() returns the
\* first argument, newValue() the second and oldValue() the third.
C3_EnvAccessors ==
  /\ \A a \in EnvEvents :
        /\ Invoke(heap[a], "name").val = ctor[a].args.name
        /\ Invoke(heap[a], "newValue").val = ctor[a].args.newValue
        /\ Invoke(heap[a], "oldValue").val = ctor[a].args.oldValue
  /\ ret.op = "name" => ret.val = ctor[ret.self].args.name
  /\ ret.op = "newValue" => ret.val = ctor[ret.self].args.newValue
  /\ ret.op = "oldValue" => ret.val = ctor[ret.self].args.oldValue

\* WorkflowEnvChanged("workdir", "/tmp/b", "/tmp/a").oldValue() has returned
\* "/tmp/a".
C3_Witness ==
  /\ ret.op = "oldValue"
  /\ ret.val = [type |-> "str", repr |-> "/tmp/a"]
  /\ ctor[ret.self].args = [name |-> "workdir",
                            newValue |-> [type |-> "str", repr |-> "/tmp/b"],
                            oldValue |-> [type |-> "str", repr |-> "/tmp/a"]]

\* C4: the kind of every WorkflowEnvChanged event is
\* WorkflowEvent.WorkflowEnvironmentChange, whatever its arguments.
C4_EnvKindFixed ==
  /\ \A a \in EnvEvents : Invoke(heap[a], "type").val = kinds["WorkflowEnvironmentChange"]
  /\ ret.op = "type" /\ ret.self \in EnvEvents =>
        ret.val = kinds["WorkflowEnvironmentChange"]

\* type() of a WorkflowEnvChanged with equal old and new value has returned.
C4_Witness ==
  /\ ret.op = "type"
  /\ ret.self \in EnvEvents
  /\ ctor[ret.self].args.newValue = ctor[ret.self].args.oldValue
  /\ ctor[ret.self].args.name = "basedir"

\* C6 as stated: the position of every NodeEvent, LinkEvent and
\* AnnotationEvent is a valid index into the owning collection, or -1.
C6_PosValidOrMinusOne ==
  \A a \in Carriers :
     LET r == Invoke(heap[a], "pos")
     IN  r.val = -1 \/ r.val \in ValidIndexes

\* C6 amended: the position of an event is a valid index or -1 exactly when
\* the caller passed such a pos or omitted it; the constructor neither
\* rejects nor adjusts any other integer.
C6_PosValidIffPassedValid ==
  \A a \in Carriers :
     LET r == Invoke(heap[a], "pos")
     IN  (r.val = -1 \/ r.val \in ValidIndexes)
            <=> (PassedPos(a) = -1 \/ PassedPos(a) \in ValidIndexes)

\* An AnnotationEvent constructed with pos = -2 is alive and holds -2.
C6_Witness ==
  \E a \in Carriers :
     /\ ctor[a].cls = "AnnotationEvent"
     /\ PassedPos(a) = -2
     /\ Invoke(heap[a], "pos").val = -2

\* C8: no constructor and no accessor ends in an error, for every kind of
\* the registry (also one not documented for the class), every pos and
\* every pair of old and new values.
C8_NoErrors ==
  /\ ret.err = "ok"
  /\ \A a \in Live : \A m \in Methods(ctor[a].cls) : Invoke(heap[a], m).err = "ok"
  /\ ret.op \in CarrierClasses \cup {"WorkflowEvent", "WorkflowEnvChanged"} =>
        ret.self \in Live /\ ctor[ret.self].cls = ret.op

\* NodeEvent(LinkAdded, entity, -2) has been constructed.
C8_Witness ==
  /\ ret.op = "NodeEvent"
  /\ ret.err = "ok"
  /\ ret.self \in Live
  /\ ctor[ret.self].args.etype = kinds["LinkAdded"]
  /\ PassedPos(ret.self) = -2

\* C9: the kind of a WorkflowEvent, NodeEvent, LinkEvent or AnnotationEvent
\* is the etype argument of its constructor, whatever the entity and pos.
C9_KindIsEtype ==
  /\ \A a \in Live :
        ctor[a].cls # "WorkflowEnvChanged" =>
           Invoke(heap[a], "type").val = ctor[a].args.etype
  /\ ret.op = "type" /\ ret.self \notin EnvEvents =>
        ret.val = ctor[ret.self].args.etype

\* type() of AnnotationEvent(AnnotationChange, entity 1, 1) has returned
\* AnnotationChange.
C9_Witness ==
  /\ ret.op = "type"
  /\ ret.val = kinds["AnnotationChange"]
  /\ ctor[ret.self].cls = "AnnotationEvent"
  /\ ctor[ret.self].args = [etype |-> kinds["AnnotationChange"], entity |-> 1, pos |-> 1]

\* C7: events are immutable once constructed: no accessor call and no
\* construction of another event changes the attributes of a live event, so
\* every accessor keeps returning the same result.
C7_EventsImmutable ==
  [][ \A a \in DOMAIN heap \cap DOMAIN heap' :
         /\ heap'[a] = heap[a]
         /\ \A m \in Methods(ctor[a].cls) :
               Invoke(heap'[a], m).val = Invoke(heap[a], m).val ]_vars

\* Two events are alive and an accessor of one of them has just returned.
C7_Witness ==
  /\ Cardinality(Live) = 2
  /\ ret.op \in {"type", "node", "link", "annotation", "pos", "name", "oldValue", "newValue"}
  /\ \E b \in Live : b # ret.self /\ ctor[b].cls # ctor[ret.self].cls

\* C5: the registry is append-only, each registration returns an event type
\* never returned before, and the value of a WorkflowEvent kind name, once
\* assigned, is not changed by later registrations.
C5_RegistryAppendOnly ==
  [][ /\ registered \subseteq registered'
      /\ \A n \in DOMAIN kinds : n \in DOMAIN kinds' /\ kinds'[n] = kinds[n]
      /\ ret'.op = "registerEventType" =>
            /\ ret'.val \notin registered
            /\ registered' = registered \cup {ret'.val}
            /\ \A n \in DOMAIN kinds' \ DOMAIN kinds : kinds'[n] = ret'.val ]_vars

\* The module is imported and other code has registered a type after
\* NodeAdded was assigned.
C5_Witness ==
  /\ pc = Loaded
  /\ \E t \in OtherTypes : t > kinds["NodeAdded"]

\* C10: WorkflowEvent has 25 kind names with 24 distinct values;
\* WorkflowResourceChange and WorkflowEnvironmentChange are the only two
\* names with the same value.
C10_KindNamesAndValues ==
  pc = Loaded =>
     /\ DOMAIN kinds = KindNames
     /\ Cardinality(DOMAIN kinds) = 25
     /\ Cardinality(Range(kinds)) = 24
     /\ kinds["WorkflowResourceChange"] = kinds["WorkflowEnvironmentChange"]
     /\ \A m, n \in DOMAIN kinds :
           m # n /\ kinds[m] = kinds[n] =>
              {m, n} = {"WorkflowResourceChange", "WorkflowEnvironmentChange"}

\* The class body has run to its end while other code registered a type.
C10_Witness ==
  /\ pc = Loaded
  /\ OtherTypes # {}
  /\ kinds["WorkflowResourceChange"] = kinds["WorkflowEnvironmentChange"]

=============================================================================
